---- MODULE Spec2Model ----
(***************************************************************************)
(* A model of the sonetwork node engine (src/network_node.py) and of the   *)
(* observer that drives it (src/gui.py).                                   *)
(*                                                                         *)
(* A NetworkNode object is identified by <<id, gen>>: id = port -          *)
(* base_port, gen counts the rebuilds of the network (objects of an older  *)
(* generation are not destroyed by a rebuild, only dropped from the        *)
(* observer's registry).                                                   *)
(*                                                                         *)
(* Time: the code reads the clock only to stamp what it writes and to      *)
(* compute time.time() - self.last_heartbeat, so every time is kept as its *)
(* age in whole seconds, time.time() - x: since_heartbeat for              *)
(* last_heartbeat, age for a datagram's timestamp.  One Tick is one        *)
(* second: every age grows by one and every time.sleep(1) ends.  An age    *)
(* beyond the largest value the code can tell apart is not counted         *)
(* further.                                                                *)
(***************************************************************************)
EXTENDS Integers, Sequences, FiniteSets, TLC

(* ------------------------------ bounds -------------------------------- *)
\* nodes in the configuration of the cluster specifications
NumNodes == 3
\* nodes in the configuration of Spec, which also rebuilds the network
FewNodes == 2
\* a datagram's age is counted up to MaxAge seconds
MaxAge == 1
\* how many times the observer may rebuild the network
MaxGen == 1
\* datagrams a socket's receive buffer holds; one more is dropped (UDP)
BufSize == 1
\* threads that call stop() directly on a node (StopSpec)
MaxCallers == 3
\* nodes in the configuration of the flood specification: a leader and
\* three followers
FloodNodes == 4

(* ------------------------- program constants -------------------------- *)
\* network_node.py:132  "if time.time() - self.last_heartbeat > 3"
HeartbeatTimeout == 3
\* network_node.py:17   base_port=5000
BasePort == 5000
\* Python's None where an integer may stand (master_id, master_node)
None == -1
\* network_monitor.py:105  "time.sleep(5)"
ProbeInterval == 5

Callers == 1 .. MaxCallers

VARIABLES
    config,       \* the loaded configuration (gui.config / node.config)
    node,         \* object -> the NetworkNode's fields
    thread,       \* object -> position of its listener and periodic thread
    net,          \* datagrams sent and not yet received
    nodes,        \* observer: self.nodes, id -> object
    master_node,  \* observer: self.master_node
    gui,          \* observer: position of the GUI thread
    gen,          \* observer: number of rebuilds of the network so far
    events,       \* Qt's queue of signals emitted towards the GUI thread
    call,         \* caller thread -> position inside NetworkNode.stop()
    died,         \* history: object -> number of node_died emissions
    stopped,      \* history: objects on which a stop() call has returned
    build,        \* observer: position inside the creation loop of
                  \* _setup_network and inside _create_socket
    monitor       \* the NetworkMonitor object and the position of its thread

vars == <<config, node, thread, net, nodes, master_node, gui, gen, events,
          call, died, stopped, build, monitor>>

(* ----------------------------- utilities ------------------------------ *)
Range(f) == {f[x] : x \in DOMAIN f}

RECURSIVE SumSeq(_)
SumSeq(s) == IF s = <<>> THEN 0 ELSE Head(s) + SumSeq(Tail(s))

Max(S) == CHOOSE x \in S : \A y \in S : y <= x

(* --------------------------- configuration ---------------------------- *)
\* A host string is kept as the list of digit groups re.findall(r'\d+')
\* finds in it: "localhost" is <<>>, "10.0.0.2" is <<10, 0, 0, 2>>.
HostOf(scheme, i) ==
    IF scheme = "numbered" THEN <<0, 0, 0, i>> ELSE <<>>

\* config["network"]["nodes"], in file order, with one initial master
ConfigFor(n, scheme, m) ==
    [base_port |-> BasePort,
     nodes |-> [i \in 1 .. n |->
                   [host |-> HostOf(scheme, i - 1),
                    port |-> BasePort + (i - 1),
                    is_master |-> (i - 1 = m)]]]

\* the configurations tried: every host its own number or every host
\* "localhost", node 0 the initial master (as in network.py line 12)
Configs(n) == {ConfigFor(n, s, 0) : s \in {"numbered", "localhost"}}

(* --------------------------- NetworkNode ------------------------------ *)
\* NetworkNode._calculate_host_id
calculate_host_id(host) == SumSeq(host)

\* the loop of NetworkNode.start that fills self.peers: a later entry with
\* the same peer_id overwrites an earlier one
RECURSIVE FillPeers(_, _, _)
FillPeers(cfgnodes, self_id, peers) ==
    IF cfgnodes = <<>> THEN peers
    ELSE LET pc == Head(cfgnodes)
             peer_id == calculate_host_id(pc.host)
             next == IF peer_id # self_id
                     THEN [k \in DOMAIN peers \cup {peer_id} |->
                              IF k = peer_id THEN pc.port ELSE peers[k]]
                     ELSE peers
         IN FillPeers(Tail(cfgnodes), self_id, next)

\* NetworkNode.__init__ followed by set_config and the peer loop of start()
NewNode(cfg, nc) ==
    [id |-> nc.port - cfg.base_port,
     port |-> nc.port,
     is_master |-> nc.is_master,
     master_id |-> IF nc.is_master THEN 0 ELSE None,
     alive |-> TRUE,
     is_active |-> TRUE,
     socket |-> "open",
     cleanup_in_progress |-> FALSE,
     since_heartbeat |-> 0,
     peers |-> FillPeers(cfg.nodes, nc.port - cfg.base_port, <<>>)]

\* the threads start() launches
NewThread(nc) ==
    [listen |-> "run",
     kind |-> IF nc.is_master THEN "heartbeat" ELSE "monitor",
     pc |-> "while"]

(* datagrams: the JSON payload plus the address it is sent to *)
Payload(type, id, age) == [type |-> type, id |-> id, age |-> age]
Datagram(port, p) == [dst |-> port, type |-> p.type, id |-> p.id, age |-> p.age]
PayloadOf(m) == Payload(m.type, m.id, m.age)

\* NetworkNode._broadcast_message: one sendto per peer; a sendto on a closed
\* or missing socket raises and is swallowed
broadcast_message(n, p) ==
    IF n.socket = "open" THEN {Datagram(port, p) : port \in Range(n.peers)}
    ELSE {}

\* a broadcast that stops after the first peer
initiate_election_first_peer(n) ==
    {d \in broadcast_message(n, Payload("master_election", n.id, 0)) :
        \A e \in broadcast_message(n, Payload("master_election", n.id, 0)) : d.dst <= e.dst}

\* NetworkNode._initiate_election
initiate_election(n) == broadcast_message(n, Payload("master_election", n.id, 0))

\* a handler that raises master_changed on every heartbeat
handle_message_always_emits(n, m) ==
    IF m.type = "heartbeat" /\ ~n.is_master THEN
        [node |-> [n EXCEPT !.since_heartbeat = 0, !.master_id = m.id],
         sent |-> {},
         emit |-> <<[sig |-> "master_changed", arg |-> m.id]>>]
    ELSE IF m.type = "master_election" /\ ~n.is_master /\ m.id # None THEN
        [node |-> n,
         sent |-> IF m.id > n.id THEN broadcast_message(n, PayloadOf(m))
                  ELSE IF m.id < n.id THEN initiate_election(n)
                  ELSE {},
         emit |-> <<>>]
    ELSE [node |-> n, sent |-> {}, emit |-> <<>>]

\* a handler that stamps a forwarded proposal afresh
handle_message_restamps(n, m) ==
    IF m.type = "heartbeat" /\ ~n.is_master THEN
        [node |-> [n EXCEPT !.since_heartbeat = 0, !.master_id = m.id],
         sent |-> {},
         emit |-> IF m.id # n.master_id /\ m.id # None
                  THEN <<[sig |-> "master_changed", arg |-> m.id]>> ELSE <<>>]
    ELSE IF m.type = "master_election" /\ ~n.is_master /\ m.id # None THEN
        [node |-> n,
         sent |-> IF m.id > n.id
                  THEN broadcast_message(n, Payload("master_election", m.id, 0))
                  ELSE IF m.id < n.id THEN initiate_election(n)
                  ELSE {},
         emit |-> <<>>]
    ELSE [node |-> n, sent |-> {}, emit |-> <<>>]

\* a handler that takes the leader role when its own proposal comes back
handle_message_takes_role(n, m) ==
    IF m.type = "heartbeat" /\ ~n.is_master THEN
        [node |-> [n EXCEPT !.since_heartbeat = 0, !.master_id = m.id],
         sent |-> {},
         emit |-> IF m.id # n.master_id /\ m.id # None
                  THEN <<[sig |-> "master_changed", arg |-> m.id]>> ELSE <<>>]
    ELSE IF m.type = "master_election" /\ ~n.is_master /\ m.id # None THEN
        [node |-> IF m.id = n.id THEN [n EXCEPT !.is_master = TRUE] ELSE n,
         sent |-> IF m.id > n.id THEN broadcast_message(n, PayloadOf(m))
                  ELSE IF m.id < n.id THEN initiate_election(n)
                  ELSE {},
         emit |-> <<>>]
    ELSE [node |-> n, sent |-> {}, emit |-> <<>>]

\* a handler that takes a probe of the connectivity monitor for a sign of
\* life of the leader
handle_message_probe_resets(n, m) ==
    IF m.type = "heartbeat" /\ ~n.is_master THEN
        [node |-> [n EXCEPT !.since_heartbeat = 0, !.master_id = m.id],
         sent |-> {},
         emit |-> IF m.id # n.master_id /\ m.id # None
                  THEN <<[sig |-> "master_changed", arg |-> m.id]>> ELSE <<>>]
    ELSE IF m.type = "master_election" /\ ~n.is_master /\ m.id # None THEN
        [node |-> n,
         sent |-> IF m.id > n.id THEN broadcast_message(n, PayloadOf(m))
                  ELSE IF m.id < n.id THEN initiate_election(n)
                  ELSE {},
         emit |-> <<>>]
    ELSE IF m.type = "connection_test" /\ ~n.is_master THEN
        [node |-> [n EXCEPT !.since_heartbeat = 0], sent |-> {}, emit |-> <<>>]
    ELSE [node |-> n, sent |-> {}, emit |-> <<>>]

\* a handler whose election branch does not look at the node's role
handle_message_leader_elects(n, m) ==
    IF m.type = "heartbeat" /\ ~n.is_master THEN
        [node |-> [n EXCEPT !.since_heartbeat = 0, !.master_id = m.id],
         sent |-> {},
         emit |-> IF m.id # n.master_id /\ m.id # None
                  THEN <<[sig |-> "master_changed", arg |-> m.id]>> ELSE <<>>]
    ELSE IF m.type = "master_election" /\ m.id # None THEN
        [node |-> n,
         sent |-> IF m.id > n.id THEN broadcast_message(n, PayloadOf(m))
                  ELSE IF m.id < n.id THEN initiate_election(n)
                  ELSE {},
         emit |-> <<>>]
    ELSE [node |-> n, sent |-> {}, emit |-> <<>>]

\* NetworkNode._handle_message: the node afterwards, the datagrams sent and
\* the signals emitted.  An id of None stands for a message without its
\* master_id / proposed_master field, for which message.get returns None:
\* master_changed.emit(None) (a pyqtSignal(int)) and None > self.id raise
\* TypeError, which ends the handler and is caught in _listen (line 91).
handle_message(n, m) ==
    IF m.type = "heartbeat" /\ ~n.is_master THEN
        [node |-> [n EXCEPT !.since_heartbeat = 0, !.master_id = m.id],
         sent |-> {},
         emit |-> IF m.id # n.master_id /\ m.id # None
                  THEN <<[sig |-> "master_changed", arg |-> m.id]>> ELSE <<>>]
    ELSE IF m.type = "master_election" /\ ~n.is_master /\ m.id # None THEN
        [node |-> n,
         sent |-> IF m.id > n.id THEN broadcast_message(n, PayloadOf(m))
                  ELSE IF m.id < n.id THEN initiate_election(n)
                  ELSE {},
         emit |-> <<>>]
    ELSE [node |-> n, sent |-> {}, emit |-> <<>>]

\* json.loads(data.decode()) of line 89 returns: the datagram holds a JSON
\* object.  On anything else it raises, or the handler's message.get does.
Decodes(m) == m.type # "garbage"

\* NetworkNode._listen, the body of the loop (lines 88-93): an exception of
\* the decoding or of the handler is caught and the loop goes on
listen_once(n, m) ==
    IF Decodes(m) THEN handle_message(n, m)
    ELSE [node |-> n, sent |-> {}, emit |-> <<>>]

(* -------------------------- NetworkNode.stop -------------------------- *)
\* line 157: if not self._cleanup_in_progress
stop_enter(n) == ~n.cleanup_in_progress
\* line 158
stop_mark(n) == [n EXCEPT !.cleanup_in_progress = TRUE]
\* a shutdown that leaves alive as it is
stop_flags_keeps_alive(n) == [n EXCEPT !.is_active = FALSE]
\* lines 159-160
stop_flags(n) == [n EXCEPT !.alive = FALSE, !.is_active = FALSE]
\* line 163: if self.socket
stop_has_socket(n) == n.socket # "none"
\* lines 164-171: shutdown and close, each inside try/except; on a socket
\* that another caller closed or cleared the calls raise and are swallowed
stop_close(n) == [n EXCEPT !.socket = IF @ = "open" THEN "closed" ELSE @]
\* line 172
stop_clear(n) == [n EXCEPT !.socket = "none"]
\* line 175: if not self._cleanup_in_progress: emit node_died
stop_emit(n) == ~n.cleanup_in_progress
\* line 178
stop_reset(n) == [n EXCEPT !.cleanup_in_progress = FALSE]

\* a stop() with no re-entrancy guard: it always shuts down and always
\* emits node_died
stop_unguarded(n) ==
    LET a == stop_flags(n)
        b == IF stop_has_socket(a) THEN stop_clear(stop_close(a)) ELSE a
    IN [node |-> b, died |-> 1]

\* stop() run by one thread with no other stop() interleaved: the node
\* afterwards and the number of node_died signals emitted
stop(n) ==
    IF stop_enter(n) THEN
        LET a == stop_flags(stop_mark(n))
            b == IF stop_has_socket(a) THEN stop_clear(stop_close(a)) ELSE a
        IN [node |-> stop_reset(b), died |-> IF stop_emit(b) THEN 1 ELSE 0]
    ELSE [node |-> n, died |-> 0]

(* ------------------------------ network ------------------------------- *)
\* a datagram is queued unless the receive buffer of its port is full
Deliverable(queued, d) ==
    Cardinality({m \in queued : m.dst = d.dst}) < BufSize

Transmit(queued, sent) == queued \cup {d \in sent : Deliverable(queued, d)}

(* ------------------------------- Init --------------------------------- *)
Obj(id, g) == <<id, g>>

ConfigIds(cfg) == {nc.port - cfg.base_port : nc \in Range(cfg.nodes)}
ConfigNode(cfg, id) == CHOOSE nc \in Range(cfg.nodes) : nc.port - cfg.base_port = id

\* the caller threads of StopSpec, none of them inside stop() yet
NoCalls ==
    [t \in Callers |-> [pc |-> "idle", obj |-> Obj(0, 0), entered |-> FALSE,
                        live |-> FALSE, closed |-> FALSE, emitted |-> FALSE]]

\* the creation loop of _setup_network is not running: i config entries
\* gone through, binds bind calls made for the entry at hand
NoBuild == [i |-> 0, pc |-> "idle", binds |-> 0]

\* NetworkMonitor.__init__: nothing is monitored and no thread runs.  pairs,
\* k, nap and queued belong to the thread: the pairs of the cycle at hand,
\* the pair it is at, the seconds of its sleep that remain, whether the
\* probe of the check at hand was queued at its receiver; changed and
\* probed record the cycle at hand: the connection_changed signals emitted
\* and the result of each check.
NoMonitor ==
    [running |-> FALSE, nodes |-> <<>>, connections |-> {}, current |-> {},
     pc |-> "off", pairs |-> <<>>, k |-> 0, nap |-> 0, queued |-> FALSE,
     changed |-> <<>>, probed |-> <<>>]

\* NetworkVisualizerWindow.__init__ -> _setup_network on an empty registry:
\* every configured node is constructed and started, nothing is sent yet
InitWith(cfgs) ==
    /\ config \in cfgs
    /\ node = [o \in {Obj(i, 0) : i \in ConfigIds(config)} |->
                 NewNode(config, ConfigNode(config, o[1]))]
    /\ thread = [o \in {Obj(i, 0) : i \in ConfigIds(config)} |->
                 NewThread(ConfigNode(config, o[1]))]
    /\ net = {}
    /\ nodes = [i \in ConfigIds(config) |-> Obj(i, 0)]
    /\ master_node = Max({i \in ConfigIds(config) : ConfigNode(config, i).is_master})
    /\ gui = "idle"
    /\ gen = 0
    /\ events = <<>>
    /\ call = NoCalls
    /\ died = [o \in {Obj(i, 0) : i \in ConfigIds(config)} |-> 0]
    /\ stopped = {}
    /\ build = NoBuild
    /\ monitor = NoMonitor

\* the process lives until the window is closed
Running == gui # "closed"

(* -------------------------- node threads ------------------------------ *)
\* NetworkNode._listen: one datagram received and handled
Recv(o, m) ==
    /\ Running
    /\ thread[o].listen = "run"
    /\ node[o].socket = "open"
    /\ m \in net /\ m.dst = node[o].port
    /\ LET h == listen_once(node[o], m) IN
        /\ node' = [node EXCEPT ![o] = h.node]
        /\ net' = Transmit(net \ {m}, h.sent)
        /\ events' = events \o h.emit
    /\ UNCHANGED <<config, thread, nodes, master_node, gui, gen, call, died, stopped, build, monitor>>

\* NetworkNode._listen: the while condition fails and the thread ends
ListenExit(o) ==
    /\ Running
    /\ thread[o].listen = "run"
    /\ ~node[o].alive
    /\ thread' = [thread EXCEPT ![o].listen = "done"]
    /\ UNCHANGED <<config, node, net, nodes, master_node, gui, gen, events, call, died, stopped, build, monitor>>

\* NetworkNode._send_heartbeat: one turn of the loop
SendHeartbeat(o) ==
    /\ Running
    /\ thread[o].kind = "heartbeat" /\ thread[o].pc = "while"
    /\ node[o].alive /\ node[o].is_master
    /\ net' = Transmit(net, broadcast_message(node[o], Payload("heartbeat", node[o].id, 0)))
    /\ thread' = [thread EXCEPT ![o].pc = "sleep"]
    /\ UNCHANGED <<config, node, nodes, master_node, gui, gen, events, call, died, stopped, build, monitor>>

\* NetworkNode._send_heartbeat: the while condition fails and the thread ends
HeartbeatExit(o) ==
    /\ Running
    /\ thread[o].kind = "heartbeat" /\ thread[o].pc = "while"
    /\ ~(node[o].alive /\ node[o].is_master)
    /\ thread' = [thread EXCEPT ![o].pc = "done"]
    /\ UNCHANGED <<config, node, net, nodes, master_node, gui, gen, events, call, died, stopped, build, monitor>>

\* NetworkNode._monitor_master: the staleness test of line 132
MonitorCheck(o) ==
    /\ Running
    /\ thread[o].kind = "monitor" /\ thread[o].pc = "while"
    /\ node[o].alive /\ ~node[o].is_master
    /\ thread' = [thread EXCEPT ![o].pc =
                     IF node[o].since_heartbeat > HeartbeatTimeout
                     THEN "elect" ELSE "sleep"]
    /\ UNCHANGED <<config, node, net, nodes, master_node, gui, gen, events, call, died, stopped, build, monitor>>

\* NetworkNode._monitor_master: line 133, the election the test asked for
MonitorElect(o) ==
    /\ Running
    /\ thread[o].kind = "monitor" /\ thread[o].pc = "elect"
    /\ net' = Transmit(net, initiate_election(node[o]))
    /\ thread' = [thread EXCEPT ![o].pc = "sleep"]
    /\ UNCHANGED <<config, node, nodes, master_node, gui, gen, events, call, died, stopped, build, monitor>>

\* NetworkNode._monitor_master: the while condition fails and the thread ends
MonitorExit(o) ==
    /\ Running
    /\ thread[o].kind = "monitor" /\ thread[o].pc = "while"
    /\ ~(node[o].alive /\ ~node[o].is_master)
    /\ thread' = [thread EXCEPT ![o].pc = "done"]
    /\ UNCHANGED <<config, node, net, nodes, master_node, gui, gen, events, call, died, stopped, build, monitor>>

\* an age one second later, counted up to cap
Older(age, cap) == IF age < cap THEN age + 1 ELSE cap

\* one second passes: every age grows, every time.sleep(1) in progress ends
Tick ==
    /\ Running
    /\ node' = [o \in DOMAIN node |->
                  [node[o] EXCEPT !.since_heartbeat = Older(@, HeartbeatTimeout + 1)]]
    /\ net' = {[m EXCEPT !.age = Older(@, MaxAge)] : m \in net}
    /\ thread' = [o \in DOMAIN thread |->
                    IF thread[o].pc = "sleep" THEN [thread[o] EXCEPT !.pc = "while"]
                    ELSE thread[o]]
    /\ gui' = IF gui = "sleep" THEN "create" ELSE gui
    /\ build' = IF build.pc = "sleep" THEN [build EXCEPT !.pc = "retry"] ELSE build
    /\ monitor' = IF monitor.pc # "sleep" THEN monitor
                  ELSE IF monitor.nap > 1 THEN [monitor EXCEPT !.nap = @ - 1]
                  ELSE [monitor EXCEPT !.nap = 0, !.pc = "while"]
    /\ UNCHANGED <<config, nodes, master_node, gen, events, call, died, stopped>>

\* a datagram for a port no open socket is bound to is discarded
Drop(m) ==
    /\ Running
    /\ m \in net
    /\ ~\E o \in DOMAIN node : node[o].socket = "open" /\ node[o].port = m.dst
    /\ net' = net \ {m}
    /\ UNCHANGED <<config, node, thread, nodes, master_node, gui, gen, events, call, died, stopped, build, monitor>>

(* ------------------------------ observer ------------------------------ *)
\* "node._cleanup_in_progress = True; node.stop()" for every object of S
\* (gui.py lines 295-298, 465-466, 503-506)
Teardown(nd, S) ==
    [o \in DOMAIN nd |->
        IF o \in S THEN stop([nd[o] EXCEPT !.cleanup_in_progress = TRUE]).node
        ELSE nd[o]]

TeardownDied(nd, S) ==
    [o \in DOMAIN nd |->
        IF o \in S THEN stop([nd[o] EXCEPT !.cleanup_in_progress = TRUE]).died
        ELSE 0]

\* node_died signals emitted by the stop() calls, in the order of emission
RECURSIVE DiedSignals(_, _)
DiedSignals(nd, S) ==
    IF S = {} THEN <<>>
    ELSE LET o == CHOOSE x \in S : TRUE
             own == IF stop([nd[o] EXCEPT !.cleanup_in_progress = TRUE]).died > 0
                    THEN <<[sig |-> "node_died", arg |-> nd[o].id]>> ELSE <<>>
         IN own \o DiedSignals(nd, S \ {o})

\* a re-election that picks the lowest remaining identifier
Reelect_lowest(reg, nd) ==
    [o \in DOMAIN nd |->
        IF o \in Range(reg)
        THEN [nd[o] EXCEPT !.is_master =
                 (nd[o].id = CHOOSE x \in DOMAIN reg : \A y \in DOMAIN reg : x <= y)]
        ELSE nd[o]]

\* the re-election of _kill_node (gui.py lines 469-475)
Reelect(reg, nd) ==
    [o \in DOMAIN nd |->
        IF o \in Range(reg)
        THEN [nd[o] EXCEPT !.is_master = (nd[o].id = Max(DOMAIN reg))]
        ELSE nd[o]]

\* NetworkVisualizerWindow._kill_node; queue is the event queue the GUI
\* thread is left with
kill_node(node_id, queue) ==
    /\ node_id \in DOMAIN nodes
    /\ LET o == nodes[node_id]
           was_master == node[o].is_master
           reg == [i \in DOMAIN nodes \ {node_id} |-> nodes[i]]
           nd == Teardown(node, {o})
       IN /\ nodes' = reg
          /\ died' = [x \in DOMAIN died |-> died[x] + TeardownDied(node, {o})[x]]
          /\ events' = queue \o DiedSignals(node, {o})
          /\ stopped' = stopped \cup {o}
          /\ IF was_master /\ DOMAIN reg # {}
             THEN /\ master_node' = Max(DOMAIN reg)
                  /\ node' = Reelect(reg, nd)
             ELSE /\ master_node' = master_node
                  /\ node' = nd
    /\ UNCHANGED <<config, thread, net, gui, gen, call, build, monitor>>

\* NetworkVisualizerWindow._kill_master_node
KillMasterNode ==
    /\ gui = "idle"
    /\ \E i \in DOMAIN nodes :
        /\ node[nodes[i]].is_master
        /\ kill_node(i, events)

\* NetworkVisualizerWindow._kill_random_node
KillRandomNode ==
    /\ gui = "idle"
    /\ \E i \in DOMAIN nodes : kill_node(i, events)

\* NetworkVisualizerWindow._handle_master_change, run from the event queue
HandleMasterChange ==
    /\ gui = "idle"
    /\ events # <<>> /\ Head(events).sig = "master_changed"
    /\ LET new_master_id == Head(events).arg IN
        /\ master_node' = new_master_id
        /\ node' = [o \in DOMAIN node |->
                      IF o \in Range(nodes)
                      THEN [node[o] EXCEPT !.is_master = (node[o].id = new_master_id)]
                      ELSE node[o]]
    /\ events' = Tail(events)
    /\ UNCHANGED <<config, thread, net, nodes, gui, gen, call, died, stopped, build, monitor>>

\* NetworkVisualizerWindow._handle_node_death, run from the event queue
HandleNodeDeath ==
    /\ gui = "idle"
    /\ events # <<>> /\ Head(events).sig = "node_died"
    /\ LET node_id == Head(events).arg IN
        IF node_id \in DOMAIN nodes /\ ~node[nodes[node_id]].cleanup_in_progress
        THEN kill_node(node_id, Tail(events))
        ELSE /\ events' = Tail(events)
             /\ UNCHANGED <<config, node, thread, net, nodes, master_node,
                            gui, gen, call, died, stopped, build, monitor>>

\* NetworkVisualizerWindow._restore_network -> _setup_network, up to its
\* time.sleep(1): the registered nodes are stopped and the registry cleared
RestoreNetwork ==
    /\ gui = "idle"
    /\ gen < MaxGen
    /\ node' = Teardown(node, Range(nodes))
    /\ died' = [x \in DOMAIN died |-> died[x] + TeardownDied(node, Range(nodes))[x]]
    /\ events' = events \o DiedSignals(node, Range(nodes))
    /\ stopped' = stopped \cup Range(nodes)
    /\ nodes' = <<>>
    /\ gui' = "sleep"
    /\ gen' = gen + 1
    /\ UNCHANGED <<config, thread, net, master_node, call, build, monitor>>

\* _setup_network after the sleep: the nodes are constructed from the
\* configuration and started.  bound is the set of nodes whose socket could
\* be bound; a port no open socket holds is always bound, a port that an
\* older socket still holds is bound or not, as the platform's SO_REUSEADDR
\* decides, and a node whose bind fails twice is skipped (line 330-332)
SetupNetwork(bound) ==
    /\ gui = "create" /\ build = NoBuild
    /\ \A i \in ConfigIds(config) \ bound :
          \E o \in DOMAIN node : node[o].socket = "open" /\ node[o].id = i
    /\ LET new == {Obj(i, gen) : i \in bound} IN
        /\ node' = [o \in DOMAIN node \cup new |->
                      IF o \in new THEN NewNode(config, ConfigNode(config, o[1]))
                      ELSE node[o]]
        /\ thread' = [o \in DOMAIN thread \cup new |->
                      IF o \in new THEN NewThread(ConfigNode(config, o[1]))
                      ELSE thread[o]]
        /\ died' = [o \in DOMAIN died \cup new |-> IF o \in new THEN 0 ELSE died[o]]
        /\ nodes' = [i \in bound |-> Obj(i, gen)]
        /\ master_node' = IF \E i \in bound : ConfigNode(config, i).is_master
                          THEN Max({i \in bound : ConfigNode(config, i).is_master})
                          ELSE master_node
    /\ gui' = "idle"
    /\ UNCHANGED <<config, net, gen, events, call, stopped, build, monitor>>

(* ---------------- the creation loop, one step at a time --------------- *)
\* a _create_socket that goes on retrying: a failed retry sleeps again
create_socket_keeps_retrying(b, ok) ==
    IF ok THEN [b EXCEPT !.pc = "bound", !.binds = @ + 1]
    ELSE [b EXCEPT !.pc = "sleep", !.binds = @ + 1]

\* NetworkNode._create_socket: the bind call the construction is at (line 53
\* at "bind", line 57 at "retry") returns (ok) or raises OSError.  A failed
\* first bind leads to the sleep of line 56, a failed retry is re-raised
\* (lines 58-60) and ends __init__.
create_socket(b, ok) ==
    IF ok THEN [b EXCEPT !.pc = "bound", !.binds = @ + 1]
    ELSE IF b.pc = "bind" THEN [b EXCEPT !.pc = "sleep", !.binds = @ + 1]
    ELSE [b EXCEPT !.pc = "raised", !.binds = @ + 1]

\* the configuration entry the creation loop is at
BuildEntry == config.nodes[build.i]
BuildId == BuildEntry.port - config.base_port

\* an open socket of this process holds the port of node i
PortHeld(i) == \E o \in DOMAIN node : node[o].socket = "open" /\ node[o].id = i

\* _setup_network line 308: the loop takes the next configuration entry and
\* calls NetworkNode(...)
BuildBegin ==
    /\ gui = "create" /\ build.pc = "idle"
    /\ build.i < Len(config.nodes)
    /\ build' = [i |-> build.i + 1, pc |-> "bind", binds |-> 0]
    /\ UNCHANGED <<config, node, thread, net, nodes, master_node, gui, gen,
                   events, call, died, stopped, monitor>>

\* one bind call of _create_socket; it can fail only on a port that an
\* open socket holds, as the platform's SO_REUSEADDR decides
BuildBind(ok) ==
    /\ gui = "create" /\ build.pc \in {"bind", "retry"}
    /\ ok \/ PortHeld(BuildId)
    /\ build' = create_socket(build, ok)
    /\ UNCHANGED <<config, node, thread, net, nodes, master_node, gui, gen,
                   events, call, died, stopped, monitor>>

\* _setup_network lines 317-328: the constructed node is connected, started
\* and registered
BuildStart ==
    /\ gui = "create" /\ build.pc = "bound"
    /\ LET new == Obj(BuildId, gen) IN
        /\ node' = [o \in DOMAIN node \cup {new} |->
                      IF o = new THEN NewNode(config, BuildEntry) ELSE node[o]]
        /\ thread' = [o \in DOMAIN thread \cup {new} |->
                      IF o = new THEN NewThread(BuildEntry) ELSE thread[o]]
        /\ died' = [o \in DOMAIN died \cup {new} |-> IF o = new THEN 0 ELSE died[o]]
        /\ nodes' = [i \in DOMAIN nodes \cup {BuildId} |->
                      IF i = BuildId THEN new ELSE nodes[i]]
        /\ master_node' = IF BuildEntry.is_master THEN BuildId ELSE master_node
    /\ build' = [build EXCEPT !.pc = "idle"]
    /\ UNCHANGED <<config, net, gui, gen, events, call, stopped, monitor>>

\* _setup_network lines 330-332: the exception of a failed construction is
\* caught and the loop continues with the next entry
BuildSkip ==
    /\ gui = "create" /\ build.pc = "raised"
    /\ build' = [build EXCEPT !.pc = "idle"]
    /\ UNCHANGED <<config, node, thread, net, nodes, master_node, gui, gen,
                   events, call, died, stopped, monitor>>

\* _setup_network lines 334-353: the loop is through, the GUI thread
\* returns to the event loop
BuildEnd ==
    /\ gui = "create" /\ build.pc = "idle"
    /\ build.i = Len(config.nodes)
    /\ gui' = "idle"
    /\ build' = NoBuild
    /\ UNCHANGED <<config, node, thread, net, nodes, master_node, gen,
                   events, call, died, stopped, monitor>>

\* NetworkVisualizerWindow.closeEvent: the nodes are stopped and the
\* application, with its daemon threads, ends
CloseEvent ==
    /\ gui = "idle"
    /\ node' = Teardown(node, Range(nodes))
    /\ died' = [x \in DOMAIN died |-> died[x] + TeardownDied(node, Range(nodes))[x]]
    /\ events' = events \o DiedSignals(node, Range(nodes))
    /\ stopped' = stopped \cup Range(nodes)
    /\ gui' = "closed"
    /\ UNCHANGED <<config, thread, net, nodes, master_node, gen, call, build, monitor>>

(* ------------------ threads that call stop() directly ------------------ *)
\* NetworkNode.stop() line by line, for the caller thread t

\* the call itself
StopCall(t, o) ==
    /\ Running
    /\ call[t].pc = "idle"
    /\ call' = [call EXCEPT ![t].pc = "l157", ![t].obj = o]
    /\ UNCHANGED <<config, node, thread, net, nodes, master_node, gui, gen,
                   events, died, stopped, build, monitor>>

\* line 157, the guard holds: the body is entered
Stop157(t) ==
    /\ call[t].pc = "l157"
    /\ stop_enter(node[call[t].obj])
    /\ call' = [call EXCEPT ![t].pc = "l158", ![t].entered = TRUE,
                            ![t].live = node[call[t].obj].alive]
    /\ UNCHANGED <<config, node, thread, net, nodes, master_node, gui, gen,
                   events, died, stopped, build, monitor>>

\* line 157, the guard fails: stop() returns
StopSkip(t) ==
    /\ call[t].pc = "l157"
    /\ ~stop_enter(node[call[t].obj])
    /\ call' = [call EXCEPT ![t].pc = "done"]
    /\ stopped' = stopped \cup {call[t].obj}
    /\ UNCHANGED <<config, node, thread, net, nodes, master_node, gui, gen,
                   events, died, build, monitor>>

Stop158(t) ==
    /\ call[t].pc = "l158"
    /\ node' = [node EXCEPT ![call[t].obj] = stop_mark(@)]
    /\ call' = [call EXCEPT ![t].pc = "l159"]
    /\ UNCHANGED <<config, thread, net, nodes, master_node, gui, gen,
                   events, died, stopped, build, monitor>>

Stop159(t) ==
    /\ call[t].pc = "l159"
    /\ node' = [node EXCEPT ![call[t].obj] = stop_flags(@)]
    /\ call' = [call EXCEPT ![t].pc = "l163"]
    /\ UNCHANGED <<config, thread, net, nodes, master_node, gui, gen,
                   events, died, stopped, build, monitor>>

\* line 163: with a socket the shutdown/close block is entered
Stop163(t) ==
    /\ call[t].pc = "l163"
    /\ call' = [call EXCEPT
                  ![t].pc = IF stop_has_socket(node[call[t].obj]) THEN "l164" ELSE "l175",
                  ![t].closed = stop_has_socket(node[call[t].obj])]
    /\ UNCHANGED <<config, node, thread, net, nodes, master_node, gui, gen,
                   events, died, stopped, build, monitor>>

Stop164(t) ==
    /\ call[t].pc = "l164"
    /\ node' = [node EXCEPT ![call[t].obj] = stop_close(@)]
    /\ call' = [call EXCEPT ![t].pc = "l172"]
    /\ UNCHANGED <<config, thread, net, nodes, master_node, gui, gen,
                   events, died, stopped, build, monitor>>

Stop172(t) ==
    /\ call[t].pc = "l172"
    /\ node' = [node EXCEPT ![call[t].obj] = stop_clear(@)]
    /\ call' = [call EXCEPT ![t].pc = "l175"]
    /\ UNCHANGED <<config, thread, net, nodes, master_node, gui, gen,
                   events, died, stopped, build, monitor>>

\* lines 175-176: node_died is emitted if the flag is found cleared
Stop175(t) ==
    /\ call[t].pc = "l175"
    /\ LET o == call[t].obj
           emit == stop_emit(node[o])
       IN /\ call' = [call EXCEPT ![t].pc = "l178", ![t].emitted = emit]
          /\ died' = [died EXCEPT ![o] = IF emit THEN @ + 1 ELSE @]
          /\ events' = IF emit
                       THEN Append(events, [sig |-> "node_died", arg |-> node[o].id])
                       ELSE events
    /\ UNCHANGED <<config, node, thread, net, nodes, master_node, gui, gen,
                   stopped, build, monitor>>

\* line 178, and stop() returns
Stop178(t) ==
    /\ call[t].pc = "l178"
    /\ node' = [node EXCEPT ![call[t].obj] = stop_reset(@)]
    /\ call' = [call EXCEPT ![t].pc = "done"]
    /\ stopped' = stopped \cup {call[t].obj}
    /\ UNCHANGED <<config, thread, net, nodes, master_node, gui, gen,
                   events, died, build, monitor>>

\* stop() called on a running node o by a thread, no other stop() running
\* on o
StopNode(o) ==
    /\ Running
    /\ node[o].alive
    /\ LET r == stop(node[o]) IN
        /\ node' = [node EXCEPT ![o] = r.node]
        /\ died' = [died EXCEPT ![o] = @ + r.died]
        /\ events' = IF r.died > 0
                     THEN Append(events, [sig |-> "node_died", arg |-> node[o].id])
                     ELSE events
    /\ stopped' = stopped \cup {o}
    /\ UNCHANGED <<config, thread, net, nodes, master_node, gui, gen, call, build, monitor>>

\* stop() called on the leader
StopLeader(o) == node[o].is_master /\ StopNode(o)

(* ------------------- the broadcast, one peer at a time ---------------- *)
\* the keys of self.peers in the order of self.peers.items(), the order of
\* their insertion by start(): the order of the configuration, which lists
\* the nodes by ascending port
RECURSIVE PeerOrder(_)
PeerOrder(keys) ==
    IF keys = {} THEN <<>>
    ELSE LET k == CHOOSE x \in keys : \A y \in keys : x <= y
         IN <<k>> \o PeerOrder(keys \ {k})

\* a send whose exception is not caught
send_one_raises(n, p, port, ok) ==
    IF ok /\ n.socket = "open"
    THEN [sent |-> {Datagram(port, p)}, raised |-> FALSE]
    ELSE [sent |-> {}, raised |-> TRUE]

\* NetworkNode._broadcast_message lines 148-153, the body of the loop for
\* one peer: sendto returns (ok) or raises, as it also does on a closed or
\* missing socket; the exception is caught inside the loop
send_one(n, p, port, ok) ==
    IF ok /\ n.socket = "open"
    THEN [sent |-> {Datagram(port, p)}, raised |-> FALSE]
    ELSE [sent |-> {}, raised |-> FALSE]

\* NetworkNode._broadcast_message over the peers todo; fails holds the
\* ports for which sendto raises.  An exception that the body let through
\* would leave the loop and the function.
RECURSIVE broadcast_loop(_, _, _, _)
broadcast_loop(n, p, todo, fails) ==
    IF todo = <<>> THEN [sent |-> {}, raised |-> FALSE]
    ELSE LET port == n.peers[Head(todo)]
             one == send_one(n, p, port, port \notin fails)
         IN IF one.raised THEN one
            ELSE LET rest == broadcast_loop(n, p, Tail(todo), fails)
                 IN [sent |-> one.sent \cup rest.sent, raised |-> rest.raised]

\* NetworkNode._send_heartbeat: one turn of the loop, in which sendto
\* raises for the ports of fails; an exception that reached the loop would
\* end the thread
CastHeartbeat(o, fails) ==
    /\ Running
    /\ thread[o].kind = "heartbeat" /\ thread[o].pc = "while"
    /\ node[o].alive /\ node[o].is_master
    /\ fails \subseteq Range(node[o].peers)
    /\ LET r == broadcast_loop(node[o], Payload("heartbeat", node[o].id, 0),
                               PeerOrder(DOMAIN node[o].peers), fails) IN
        /\ net' = Transmit(net, r.sent)
        /\ thread' = [thread EXCEPT ![o].pc = IF r.raised THEN "done" ELSE "sleep"]
    /\ UNCHANGED <<config, node, nodes, master_node, gui, gen, events, call, died, stopped, build, monitor>>

\* NetworkNode._monitor_master line 133 -> _initiate_election, in which
\* sendto raises for the ports of fails
CastElection(o, fails) ==
    /\ Running
    /\ thread[o].kind = "monitor" /\ thread[o].pc = "elect"
    /\ fails \subseteq Range(node[o].peers)
    /\ LET r == broadcast_loop(node[o], Payload("master_election", node[o].id, 0),
                               PeerOrder(DOMAIN node[o].peers), fails) IN
        /\ net' = Transmit(net, r.sent)
        /\ thread' = [thread EXCEPT ![o].pc = IF r.raised THEN "done" ELSE "sleep"]
    /\ UNCHANGED <<config, node, nodes, master_node, gui, gen, events, call, died, stopped, build, monitor>>

(* --------------------------- NetworkMonitor --------------------------- *)
\* The monitor is handed a registry id -> (host, port).  Here it holds the
\* nodes of the small configuration and one more address, ForeignPort, at
\* which no NetworkNode listens: whatever process is there may answer a
\* probe or not.  The socket of _check_connection is bound to no port of
\* the configuration; TestPort stands for the port the system gives it.
ForeignId == FewNodes
ForeignPort == BasePort + FewNodes
TestPort == BasePort - 1

MonitoredNodes ==
    [i \in 0 .. FewNodes |-> IF i = ForeignId THEN ForeignPort ELSE BasePort + i]

\* the pairs of _monitor_connections lines 85-87, in the order of the loops
RECURSIVE PairSeq(_)
PairSeq(ids) ==
    IF Len(ids) < 2 THEN <<>>
    ELSE [j \in 1 .. (Len(ids) - 1) |-> <<Head(ids), ids[j + 1]>>]
         \o PairSeq(Tail(ids))

Pairs(mon) == PairSeq(PeerOrder(DOMAIN mon.nodes))

\* tuple(sorted([node1_id, node2_id]))
SortedPair(pair) ==
    IF pair[1] <= pair[2] THEN pair ELSE <<pair[2], pair[1]>>

\* the record of a check that compares with the connections of the cycle
\* at hand
record_result_against_current(mon, pair, is_connected) ==
    LET connection == SortedPair(pair)
        current == IF is_connected THEN mon.current \cup {connection}
                   ELSE mon.current
        was_connected == connection \in current
    IN [mon EXCEPT
          !.current = current,
          !.changed = IF is_connected # was_connected
                      THEN Append(@, <<pair[1], pair[2], is_connected>>) ELSE @,
          !.probed = [q \in DOMAIN @ \cup {connection} |->
                         IF q = connection THEN is_connected ELSE @[q]]]

\* _monitor_connections lines 92-99: the result of the check of one pair is
\* stored and, if it differs from self.connections, signalled
record_result(mon, pair, is_connected) ==
    LET connection == SortedPair(pair)
        was_connected == connection \in mon.connections
    IN [mon EXCEPT
          !.current = IF is_connected THEN @ \cup {connection} ELSE @,
          !.changed = IF is_connected # was_connected
                      THEN Append(@, <<pair[1], pair[2], is_connected>>) ELSE @,
          !.probed = [q \in DOMAIN @ \cup {connection} |->
                         IF q = connection THEN is_connected ELSE @[q]]]

\* the loop of lines 86-87 goes to the next pair, or is through
next_pair(mon) ==
    IF mon.k < Len(mon.pairs)
    THEN [mon EXCEPT !.k = @ + 1, !.pc = "pair"]
    ELSE [mon EXCEPT !.pc = "end"]

\* the probe of the check at hand (lines 45-56): sent to the second node
\* of the pair, from_id the first
Probe(mon) ==
    Datagram(mon.nodes[mon.pairs[mon.k][2]],
             Payload("connection_test", mon.pairs[mon.k][1], 0))

\* the probe of the check at hand waits in the buffer of its receiver
ProbePending(mon) ==
    \E m \in net : m.type = "connection_test" /\ m.dst = Probe(mon).dst

\* an answer waits at the socket of _check_connection
Responses == {m \in net : m.dst = TestPort /\ m.type = "connection_test_response"}

\* NetworkMonitor.start_monitoring
StartMonitoring(nd) ==
    /\ Running
    /\ monitor.pc = "off"
    /\ monitor' = [monitor EXCEPT !.nodes = nd, !.running = TRUE, !.pc = "while"]
    /\ UNCHANGED <<config, node, thread, net, nodes, master_node, gui, gen,
                   events, call, died, stopped, build>>

\* _monitor_connections lines 77-85: a cycle begins.  (The
\* monitoring_update signal of line 82 carries the time of day only and is
\* not kept.)
CycleBegin ==
    /\ Running
    /\ monitor.pc = "while" /\ monitor.running
    /\ monitor' = [monitor EXCEPT
                      !.current = {}, !.changed = <<>>, !.probed = <<>>,
                      !.pairs = Pairs(monitor), !.k = 1,
                      !.pc = IF Pairs(monitor) = <<>> THEN "end" ELSE "pair"]
    /\ UNCHANGED <<config, node, thread, net, nodes, master_node, gui, gen,
                   events, call, died, stopped, build>>

\* _check_connection lines 41-56: the probe is sent
ProbeSend ==
    /\ Running
    /\ monitor.pc = "pair"
    /\ net' = Transmit(net, {Probe(monitor)})
    /\ monitor' = [monitor EXCEPT !.pc = "wait",
                                  !.queued = Deliverable(net, Probe(monitor))]
    /\ UNCHANGED <<config, node, thread, nodes, master_node, gui, gen,
                   events, call, died, stopped, build>>

\* _check_connection lines 60-63, 67: an answer is received, the check
\* returns True, and the result is recorded
ProbeResponse ==
    /\ Running
    /\ monitor.pc = "wait"
    /\ \E m \in Responses :
        /\ net' = net \ {m}
        /\ monitor' = next_pair(record_result(monitor, monitor.pairs[monitor.k], TRUE))
    /\ UNCHANGED <<config, node, thread, nodes, master_node, gui, gen,
                   events, call, died, stopped, build>>

\* _check_connection lines 64-67: recvfrom times out, the check returns
\* False, and the result is recorded.  The half second is taken to be long
\* enough for the receiver to handle the probe and for an answer to arrive:
\* the timeout comes only when the probe is handled or lost and no answer
\* waits.
ProbeTimeout ==
    /\ Running
    /\ monitor.pc = "wait"
    /\ ~ProbePending(monitor) /\ Responses = {}
    /\ monitor' = next_pair(record_result(monitor, monitor.pairs[monitor.k], FALSE))
    /\ UNCHANGED <<config, node, thread, net, nodes, master_node, gui, gen,
                   events, call, died, stopped, build>>

\* _monitor_connections lines 102-105: the cycle ends
CycleEnd ==
    /\ Running
    /\ monitor.pc = "end"
    /\ monitor' = [monitor EXCEPT !.connections = monitor.current,
                                  !.pc = "sleep", !.nap = ProbeInterval]
    /\ UNCHANGED <<config, node, thread, net, nodes, master_node, gui, gen,
                   events, call, died, stopped, build>>

\* the process at ForeignPort answers the probe m as _check_connection
\* expects (line 62)
Answer(m) ==
    /\ Running
    /\ m \in net /\ m.dst = ForeignPort /\ m.type = "connection_test"
    /\ net' = (net \ {m}) \cup
                 {Datagram(TestPort, Payload("connection_test_response", ForeignId, 0))}
    /\ UNCHANGED <<config, node, thread, nodes, master_node, gui, gen,
                   events, call, died, stopped, build, monitor>>

\* nothing at ForeignPort answers the probe m
Ignore(m) ==
    /\ Running
    /\ m \in net /\ m.dst = ForeignPort /\ m.type = "connection_test"
    /\ net' = net \ {m}
    /\ UNCHANGED <<config, node, thread, nodes, master_node, gui, gen,
                   events, call, died, stopped, build, monitor>>

(* --------------------------- specifications --------------------------- *)
\* the program: the node threads and the observer, on a small configuration
Init == InitWith(Configs(FewNodes))

Next ==
    \/ \E o \in DOMAIN node : \E m \in net : Recv(o, m)
    \/ \E o \in DOMAIN node : SendHeartbeat(o)
    \/ \E o \in DOMAIN node : MonitorCheck(o)
    \/ \E o \in DOMAIN node : MonitorElect(o)
    \/ \E o \in DOMAIN node : MonitorExit(o)
    \/ Tick
    \/ KillMasterNode
    \/ KillRandomNode
    \/ HandleMasterChange
    \/ RestoreNetwork
    \/ \E bound \in SUBSET ConfigIds(config) : SetupNetwork(bound)
    \/ CloseEvent

Spec == Init /\ [][Next]_vars

\* the cluster: the node threads on the larger configuration, where the
\* leader can be stopped for good by a direct call of stop(). No follower is
\* stopped or promoted here, so no monitor loop ends.
ClusterInit == InitWith(Configs(NumNodes))

ClusterObjs == {Obj(i, 0) : i \in 0 .. (NumNodes - 1)}

\* the nodes the configuration starts as followers
ClusterFollowers == {Obj(i, 0) : i \in 1 .. (NumNodes - 1)}

ClusterNext ==
    \/ \E o \in DOMAIN node : \E m \in net : Recv(o, m)
    \/ \E o \in DOMAIN node : ListenExit(o)
    \/ \E o \in DOMAIN node : SendHeartbeat(o)
    \/ \E o \in DOMAIN node : HeartbeatExit(o)
    \/ \E o \in DOMAIN node : MonitorCheck(o)
    \/ \E o \in DOMAIN node : MonitorElect(o)
    \/ Tick
    \/ \E m \in net : Drop(m)
    \/ \E o \in DOMAIN node : StopLeader(o)

\* time passes and every thread that can run does run; the network owes
\* nothing
ClusterFair ==
    /\ WF_vars(Tick)
    /\ \A o \in ClusterObjs :
        /\ WF_vars(\E m \in net : Recv(o, m))
        /\ WF_vars(ListenExit(o))
        /\ WF_vars(SendHeartbeat(o))
        /\ WF_vars(HeartbeatExit(o))
        /\ WF_vars(MonitorCheck(o))
        /\ WF_vars(MonitorElect(o))

ClusterSpec == ClusterInit /\ [][ClusterNext]_vars /\ ClusterFair

\* stop() under concurrent callers: up to MaxCallers threads call stop() on
\* nodes of the started network, and the observer handles node_died
StopNext ==
    \/ \E t \in Callers : \E o \in DOMAIN node : StopCall(t, o)
    \/ \E t \in Callers : Stop157(t)
    \/ \E t \in Callers : StopSkip(t)
    \/ \E t \in Callers : Stop158(t)
    \/ \E t \in Callers : Stop159(t)
    \/ \E t \in Callers : Stop163(t)
    \/ \E t \in Callers : Stop164(t)
    \/ \E t \in Callers : Stop172(t)
    \/ \E t \in Callers : Stop175(t)
    \/ \E t \in Callers : Stop178(t)
    \/ HandleNodeDeath

StopSpec == Init /\ [][StopNext]_vars

\* the observer removing nodes from the larger configuration, where the
\* re-election has several nodes to choose from.  The network is not
\* rebuilt, and the election proposals, which no step of the observer
\* reads, are left out: the monitor loops only end.
KillNext ==
    \/ \E o \in DOMAIN node : \E m \in net : Recv(o, m)
    \/ \E o \in DOMAIN node : SendHeartbeat(o)
    \/ \E o \in DOMAIN node : MonitorExit(o)
    \/ Tick
    \/ KillMasterNode
    \/ KillRandomNode
    \/ HandleMasterChange

KillSpec == ClusterInit /\ [][KillNext]_vars

\* the rebuild of the network with its creation loop taken step by step,
\* while the threads of the nodes that exist run
BuildNext ==
    \/ \E o \in DOMAIN node : \E m \in net : Recv(o, m)
    \/ \E o \in DOMAIN node : SendHeartbeat(o)
    \/ \E o \in DOMAIN node : MonitorCheck(o)
    \/ \E o \in DOMAIN node : MonitorElect(o)
    \/ Tick
    \/ RestoreNetwork
    \/ BuildBegin
    \/ \E ok \in BOOLEAN : BuildBind(ok)
    \/ BuildStart
    \/ BuildSkip
    \/ BuildEnd

BuildSpec == Init /\ [][BuildNext]_vars

\* shutdown: the node threads on the small configuration, where any
\* running node can be stopped by a direct call of stop()
HaltObjs == {Obj(i, 0) : i \in 0 .. (FewNodes - 1)}

HaltNext ==
    \/ \E o \in DOMAIN node : \E m \in net : Recv(o, m)
    \/ \E o \in DOMAIN node : ListenExit(o)
    \/ \E o \in DOMAIN node : SendHeartbeat(o)
    \/ \E o \in DOMAIN node : HeartbeatExit(o)
    \/ \E o \in DOMAIN node : MonitorCheck(o)
    \/ \E o \in DOMAIN node : MonitorElect(o)
    \/ \E o \in DOMAIN node : MonitorExit(o)
    \/ Tick
    \/ \E m \in net : Drop(m)
    \/ \E o \in DOMAIN node : StopNode(o)

\* time passes and every thread that can run does run
HaltFair ==
    /\ WF_vars(Tick)
    /\ \A o \in HaltObjs :
        /\ WF_vars(\E m \in net : Recv(o, m))
        /\ WF_vars(ListenExit(o))
        /\ WF_vars(SendHeartbeat(o))
        /\ WF_vars(HeartbeatExit(o))
        /\ WF_vars(MonitorCheck(o))
        /\ WF_vars(MonitorElect(o))
        /\ WF_vars(MonitorExit(o))

HaltSpec == Init /\ [][HaltNext]_vars /\ HaltFair

\* the flood of one proposal: the leader of the configuration has been
\* stopped, the heartbeat of every follower is stale, and the monitor loop
\* of one follower, first, is at line 133; no other monitor loop takes a
\* step
FloodObjs == {Obj(i, 0) : i \in 0 .. (FloodNodes - 1)}

FloodInit ==
    /\ \E cfg \in Configs(FloodNodes) : \E first \in FloodObjs \ {Obj(0, 0)} :
        /\ config = cfg
        /\ node = [o \in FloodObjs |->
                     IF ConfigNode(cfg, o[1]).is_master
                     THEN stop(NewNode(cfg, ConfigNode(cfg, o[1]))).node
                     ELSE [NewNode(cfg, ConfigNode(cfg, o[1])) EXCEPT
                              !.since_heartbeat = HeartbeatTimeout + 1]]
        /\ thread = [o \in FloodObjs |->
                       IF ConfigNode(cfg, o[1]).is_master
                       THEN [listen |-> "done", kind |-> "heartbeat", pc |-> "done"]
                       ELSE [listen |-> "run", kind |-> "monitor",
                             pc |-> IF o = first THEN "elect" ELSE "while"]]
        /\ nodes = [i \in ConfigIds(cfg) |-> Obj(i, 0)]
        /\ stopped = {o \in FloodObjs : ConfigNode(cfg, o[1]).is_master}
    /\ net = {}
    /\ master_node = 0
    /\ gui = "idle"
    /\ gen = 0
    /\ events = <<>>
    /\ call = NoCalls
    /\ died = [o \in FloodObjs |-> 0]
    /\ build = NoBuild
    /\ monitor = NoMonitor

FloodNext ==
    \/ \E o \in DOMAIN node : MonitorElect(o)
    \/ \E o \in DOMAIN node : \E m \in net : Recv(o, m)
    \/ \E m \in net : Drop(m)

\* every datagram that can be received is received, and one that nobody
\* can receive is discarded
FloodFair ==
    /\ WF_vars(\E m \in net : Drop(m))
    /\ \A o \in FloodObjs :
        /\ WF_vars(\E m \in net : Recv(o, m))
        /\ WF_vars(MonitorElect(o))

FloodSpec == FloodInit /\ [][FloodNext]_vars /\ FloodFair

\* the datagrams another sender can put into the socket of port p that
\* _listen cannot make sense of: bytes that are no JSON object, a heartbeat
\* without master_id, a proposal without proposed_master
Malformed(p) ==
    {Datagram(p, Payload(t, None, 0)) :
        t \in {"garbage", "heartbeat", "master_election"}}

IsMalformed(m) == ~Decodes(m) \/ m.id = None

\* the wire: the started network of the small configuration, with
\* malformed datagrams of other senders waiting in the receive buffers
WireInit ==
    /\ \E cfg \in Configs(FewNodes) :
        /\ config = cfg
        /\ node = [o \in {Obj(i, 0) : i \in ConfigIds(cfg)} |->
                     NewNode(cfg, ConfigNode(cfg, o[1]))]
        /\ thread = [o \in {Obj(i, 0) : i \in ConfigIds(cfg)} |->
                       NewThread(ConfigNode(cfg, o[1]))]
        /\ nodes = [i \in ConfigIds(cfg) |-> Obj(i, 0)]
        /\ died = [o \in {Obj(i, 0) : i \in ConfigIds(cfg)} |-> 0]
        /\ \E q \in SUBSET UNION {Malformed(nc.port) : nc \in Range(cfg.nodes)} :
            /\ \A nc \in Range(cfg.nodes) :
                  Cardinality({m \in q : m.dst = nc.port}) <= BufSize
            /\ net = q
    /\ master_node = 0
    /\ gui = "idle"
    /\ gen = 0
    /\ events = <<>>
    /\ call = NoCalls
    /\ stopped = {}
    /\ build = NoBuild
    /\ monitor = NoMonitor

WireNext ==
    \/ \E o \in DOMAIN node : \E m \in net : Recv(o, m)
    \/ \E o \in DOMAIN node : SendHeartbeat(o)
    \/ \E o \in DOMAIN node : MonitorCheck(o)
    \/ \E o \in DOMAIN node : MonitorElect(o)
    \/ Tick

WireSpec == WireInit /\ [][WireNext]_vars

\* the cluster with peers that cannot always be reached: any send of a
\* broadcast may fail
CastPorts == {BasePort + i : i \in 0 .. (NumNodes - 1)}

CastNext ==
    \/ \E o \in DOMAIN node : \E m \in net : Recv(o, m)
    \/ \E o \in DOMAIN node : \E fails \in SUBSET CastPorts : CastHeartbeat(o, fails)
    \/ \E o \in DOMAIN node : MonitorCheck(o)
    \/ \E o \in DOMAIN node : \E fails \in SUBSET CastPorts : CastElection(o, fails)
    \/ Tick

CastSpec == ClusterInit /\ [][CastNext]_vars

\* the connectivity monitor at work on the started network of the small
\* configuration
ProbeObjs == {Obj(i, 0) : i \in 0 .. (FewNodes - 1)}

ProbeNext ==
    \/ \E o \in DOMAIN node : \E m \in net : Recv(o, m)
    \/ \E o \in DOMAIN node : SendHeartbeat(o)
    \/ \E o \in DOMAIN node : MonitorCheck(o)
    \/ \E o \in DOMAIN node : MonitorElect(o)
    \/ Tick
    \/ StartMonitoring(MonitoredNodes)
    \/ CycleBegin
    \/ ProbeSend
    \/ ProbeResponse
    \/ ProbeTimeout
    \/ CycleEnd
    \/ \E m \in net : Answer(m)
    \/ \E m \in net : Ignore(m)

\* time passes, every thread that can run does run, the monitor is started,
\* and a probe to ForeignPort does not wait for ever
ProbeFair ==
    /\ WF_vars(Tick)
    /\ \A o \in ProbeObjs :
        /\ WF_vars(\E m \in net : Recv(o, m))
        /\ WF_vars(SendHeartbeat(o))
        /\ WF_vars(MonitorCheck(o))
        /\ WF_vars(MonitorElect(o))
    /\ WF_vars(StartMonitoring(MonitoredNodes))
    /\ WF_vars(CycleBegin)
    /\ WF_vars(ProbeSend)
    /\ WF_vars(ProbeResponse)
    /\ WF_vars(ProbeTimeout)
    /\ WF_vars(CycleEnd)
    /\ WF_vars(\E m \in net : Answer(m) \/ Ignore(m))

ProbeSpec == Init /\ [][ProbeNext]_vars /\ ProbeFair

(* ------------------------------- claims ------------------------------- *)
\* the stop() invocations on o that passed the guard of line 157
Entered(o) == {t \in Callers : call[t].obj = o /\ call[t].entered}
\* the stop() invocations on o that ran the shutdown/close block
Closers(o) == {t \in Callers : call[t].obj = o /\ call[t].closed}

\* C1 (StopSpec): of all the stop() invocations on one node, sequential or
\* interleaved, at most one runs the socket shutdown/close and the
\* alive true->false transition; every other one is a no-op that does not
\* get past the guard.
C1_OneStopActs ==
    \A o \in DOMAIN node :
        /\ Cardinality(Closers(o)) <= 1
        /\ Cardinality(Entered(o)) <= 1

\* C2 (Spec): once the observer has torn a node down (kill-node,
\* restore-network, window close: flag set, stop() called and returned), the
\* node has alive = false and no socket.
C2_TornDownIsStopped ==
    \A o \in stopped : ~node[o].alive /\ node[o].socket = "none"

\* C3 (StopSpec): over any interleaving of stop() invocations on one node,
\* node_died is emitted at most once for that node.
C3_DiedAtMostOnce ==
    \A o \in DOMAIN node : died[o] <= 1

\* C4 (Spec): a node torn down by the observer (flag set before stop() is
\* called: kill-node, restore-network, window close) emits no node_died:
\* none was emitted for it and none is queued for it.
C4_TeardownEmitsNothing ==
    \A o \in stopped :
        /\ died[o] = 0
        /\ \A k \in DOMAIN events :
              ~(events[k].sig = "node_died" /\ events[k].arg = node[o].id)

\* a node was killed or dropped by a rebuild: its flag was set, stop() has
\* returned on it and it is no longer registered
C4_Witness ==
    \E o \in stopped : node[o].cleanup_in_progress /\ o \notin Range(nodes)

\* C5 (StopSpec): a stop() that found a live node and the flag cleared has,
\* when it returns, emitted node_died for that node.
C5_DirectStopEmits ==
    \A t \in Callers :
        (call[t].pc = "done" /\ call[t].entered /\ call[t].live) => call[t].emitted

\* o's threads put a datagram on the network in this step
Sends(o) ==
    /\ \/ SendHeartbeat(o)
       \/ MonitorElect(o)
       \/ \E m \in net : Recv(o, m)
    /\ ~(net' \subseteq net)

\* C6 (Spec): alive never returns from false to true, and once stop() has
\* returned on a node that node puts no further datagram on the network.
C6_NoSendAfterStop ==
    [][\A o \in DOMAIN node :
          /\ node'[o].alive => node[o].alive
          /\ o \in stopped => ~Sends(o)]_vars

\* C7 (Spec): a follower that handles a heartbeat of leader L has afterwards
\* last_heartbeat = now and master_id = L, and master_changed(L) is queued
\* exactly when L differs from the master_id it held before.
C7_HeartbeatHandled ==
    [][\A o \in DOMAIN node : \A m \in net :
          (Recv(o, m) /\ m.type = "heartbeat" /\ ~node[o].is_master) =>
              /\ node'[o].since_heartbeat = 0
              /\ node'[o].master_id = m.id
              /\ IF m.id # node[o].master_id
                 THEN events' = Append(events, [sig |-> "master_changed", arg |-> m.id])
                 ELSE events' = events]_vars

\* a follower has just handled the first heartbeat of its leader, and the
\* signal is queued
C7_Witness ==
    \E o \in DOMAIN node :
        /\ ~node[o].is_master
        /\ node[o].master_id # None
        /\ node[o].since_heartbeat = 0
        /\ events # <<>> /\ events[Len(events)].arg = node[o].master_id

\* what C8 expects a non-leader n to send on the proposal m
C8_Expected(n, m) ==
    IF n.socket # "open" THEN {}
    ELSE IF m.id > n.id
    THEN {[dst |-> p, type |-> "master_election", id |-> m.id, age |-> m.age] :
             p \in Range(n.peers)}
    ELSE IF m.id < n.id
    THEN {[dst |-> p, type |-> "master_election", id |-> n.id, age |-> 0] :
             p \in Range(n.peers)}
    ELSE {}

\* C8 (ClusterSpec): a non-leader n that receives the proposal p sends, if
\* p > n, the same proposal (same identifier, same timestamp) to every peer;
\* if p < n, a new proposal for n to every peer; if p = n, nothing.
C8_ProposalHandled ==
    [][\A o \in DOMAIN node : \A m \in net :
          (Recv(o, m) /\ m.type = "master_election" /\ ~node[o].is_master) =>
              /\ net' = Transmit(net \ {m}, C8_Expected(node[o], m))
              /\ node' = node /\ events' = events]_vars

\* a proposal for node i is on its way to node i itself, one second old:
\* with numbered hosts only a forward can have sent it
C8_Witness ==
    /\ config = ConfigFor(NumNodes, "numbered", 0)
    /\ \E m \in net :
          m.type = "master_election" /\ m.dst = BasePort + m.id /\ m.age > 0

\* f runs as a follower
Follower(f) == node[f].alive /\ ~node[f].is_master /\ thread[f].kind = "monitor"

\* stop() has shut the leader down
LeaderStopped == \A o \in ClusterObjs : node[o].is_master => ~node[o].alive

\* C9 (ClusterSpec): once the leader is stopped, a follower that stays alive
\* again and again finds its heartbeat stale (line 132) and goes on to line
\* 133, where it sends a proposal for itself to every peer; a node that
\* receives a proposal keeps its role, master_id and last_heartbeat.
C9_ElectionAfterLeaderStop ==
    /\ \A f \in ClusterFollowers :
          (LeaderStopped /\ Follower(f)) ~> (thread[f].pc = "elect" \/ ~Follower(f))
    /\ [][\A f \in ClusterObjs :
            /\ (MonitorElect(f) /\ node[f].alive) =>
                  net' = Transmit(net,
                            {[dst |-> p, type |-> "master_election",
                              id |-> node[f].id, age |-> 0] : p \in Range(node[f].peers)})
            /\ \A m \in net :
                  (Recv(f, m) /\ m.type = "master_election") =>
                      /\ node'[f].is_master = node[f].is_master
                      /\ node'[f].master_id = node[f].master_id
                      /\ node'[f].since_heartbeat = node[f].since_heartbeat]_vars

\* the leader is stopped, a follower has found its heartbeat stale once more
\* while a proposal of its own is still on its way to a peer
C9_Witness ==
    /\ LeaderStopped
    /\ \E f \in ClusterObjs :
          /\ Follower(f) /\ thread[f].pc = "elect"
          /\ \E m \in net : m.type = "master_election" /\ m.id = node[f].id
                            /\ m.dst # node[f].port

\* C10 (Spec): a node that is alive with role Leader, as initial leader or
\* by the observer's re-election, has a running heartbeat thread (without
\* one it can broadcast no heartbeat).
C10_LeaderHeartbeats ==
    \A o \in DOMAIN node :
        (node[o].alive /\ node[o].is_master) =>
            (thread[o].kind = "heartbeat" /\ thread[o].pc # "done")

\* the alive nodes that run as leader / as follower
Leaders == {o \in DOMAIN node : node[o].alive /\ node[o].is_master}
Followers == {o \in DOMAIN node : node[o].alive /\ ~node[o].is_master}

\* C11 (ClusterSpec): once the leader has been through a heartbeat round,
\* nothing is in flight any more and no follower has yet run into the
\* heartbeat timeout, every follower's master_id is the leader's id.
C11_RoundConverges ==
    \A l \in Leaders :
        (/\ thread[l].kind = "heartbeat" /\ thread[l].pc = "sleep"
         /\ net = {}
         /\ \A f \in Followers : node[f].since_heartbeat <= HeartbeatTimeout)
        => \A f \in Followers : node[f].master_id = node[l].id

\* the proposal that wins at node n against the received proposal m
Winner(n, m) == IF m.id > n.id THEN m.id ELSE n.id

\* C12 (ClusterSpec): a non-leader that receives a proposal sends on only
\* the higher of the received identifier and its own, never the lower, and
\* what it sends goes to every other live node (whose receive buffer has
\* room), so that the highest proposal reaches every live node.
C12_MaxPropagates ==
    [][\A o \in DOMAIN node : \A m \in net :
          (Recv(o, m) /\ m.type = "master_election" /\ ~node[o].is_master) =>
              /\ \A d \in net' \ (net \ {m}) :
                    d.type = "master_election" /\ d.id = Winner(node[o], m)
              /\ m.id # node[o].id =>
                    \A f \in (Leaders \cup Followers) \ {o} :
                        (\A q \in net \ {m} : q.dst # node[f].port) =>
                            \E d \in net' : /\ d.dst = node[f].port
                                            /\ d.type = "master_election"
                                            /\ d.id = Winner(node[o], m)]_vars

\* f is about to propose itself (line 133) although a node with a higher
\* identifier remains: the identifier f proposes next is not the maximum
ProposesLower(f) ==
    /\ Follower(f) /\ thread[f].pc = "elect"
    /\ \E g \in ClusterFollowers : Follower(g) /\ node[g].id > node[f].id

\* C13 (ClusterSpec): after the leader is stopped the flood converges: from
\* some point on every remaining node proposes or forwards only the maximum
\* remaining identifier, so no remaining node with a lower identifier
\* proposes itself any more.
C13_FloodConverges ==
    <>LeaderStopped => <>[](\A f \in ClusterFollowers : ~ProposesLower(f))

\* a step of one of o's threads: the listener handling a datagram, the
\* heartbeat loop, the monitor loop
ProtocolStep(o) ==
    \/ \E m \in net : Recv(o, m)
    \/ SendHeartbeat(o)
    \/ MonitorCheck(o)
    \/ MonitorElect(o)
    \/ MonitorExit(o)

C15_OneLeader == Cardinality(Leaders) <= 1

\* the identifiers of the nodes in the registry reg
RegisteredIds(reg, nd) == {nd[o].id : o \in Range(reg)}

\* C16 (KillSpec): when the observer removes the leader and nodes remain,
\* afterwards exactly one remaining node is Leader, it is the one with the
\* maximum remaining identifier, and master_node is that identifier; when
\* it removes a non-leader, the remaining nodes' roles and master_node are
\* unchanged.
C16_ReelectsMaximum ==
    [][\A i \in DOMAIN nodes :
          (kill_node(i, events) /\ DOMAIN nodes' # {}) =>
              IF node[nodes[i]].is_master
              THEN /\ \E o \in Range(nodes') :
                         /\ {x \in Range(nodes') : node'[x].is_master} = {o}
                         /\ node'[o].id = Max(RegisteredIds(nodes', node'))
                   /\ master_node' = Max(RegisteredIds(nodes', node'))
              ELSE /\ \A o \in Range(nodes') : node'[o].is_master = node[o].is_master
                   /\ master_node' = master_node]_vars

\* the leader was removed while two nodes remained: the higher of them is
\* Leader and master_node points to it
C16_Witness ==
    /\ Cardinality(DOMAIN nodes) = NumNodes - 1
    /\ master_node = Max(DOMAIN nodes) /\ master_node # 0
    /\ node[nodes[master_node]].is_master
    /\ \E o \in stopped : ConfigNode(config, o[1]).is_master

\* C17 (BuildSpec): a construction makes at most two bind calls, the second
\* only after a failed first one and the sleep that follows it; a node
\* comes to exist only after a bind that succeeded, and is then constructed,
\* started and registered as the configuration says; after a failed retry
\* no node exists, no thread is started, and the loop goes on to the
\* remaining entries.
C17_BindTwice ==
    /\ [](/\ build.binds <= 2
          /\ build.pc \in {"sleep", "retry"} => build.binds = 1
          /\ build.pc = "raised" => build.binds = 2)
    /\ [][/\ (build.pc = "sleep" /\ build' # build) => (Tick /\ build'.pc = "retry")
          /\ (DOMAIN node' # DOMAIN node \/ DOMAIN thread' # DOMAIN thread
                \/ DOMAIN nodes' \ DOMAIN nodes # {}) =>
                (BuildStart /\ build.binds \in {1, 2})
          /\ BuildStart =>
                /\ node'[Obj(BuildId, gen)] = NewNode(config, BuildEntry)
                /\ thread'[Obj(BuildId, gen)] = NewThread(BuildEntry)
                /\ nodes'[BuildId] = Obj(BuildId, gen)
          /\ BuildSkip =>
                /\ node' = node /\ thread' = thread /\ nodes' = nodes
                /\ gui' = "create" /\ build'.pc = "idle" /\ build'.i = build.i]_vars

\* a rebuild is through in which the construction of node 0 failed twice
\* and node 1 was created all the same
C17_Witness ==
    /\ gui = "idle" /\ gen = 1
    /\ DOMAIN nodes = {1} /\ nodes[1] = Obj(1, 1)
    /\ Obj(0, 1) \notin DOMAIN node

\* C18 (ClusterSpec): whenever the monitor loop of a follower sends the
\* proposal of line 133, more than HeartbeatTimeout seconds have passed
\* since that follower last handled a heartbeat.
C18_ElectionOnlyWhenStale ==
    [][\A o \in DOMAIN node :
          (MonitorElect(o) /\ node[o].alive) =>
              node[o].since_heartbeat > HeartbeatTimeout]_vars

\* the loops of o have ended
LoopsDone(o) == thread[o].listen = "done" /\ thread[o].pc = "done"

\* C19 (HaltSpec): after stop() has shut a node down, its listener loop and
\* its heartbeat or monitor loop end, and a loop that has ended does not
\* run again.
C19_LoopsEnd ==
    /\ \A o \in HaltObjs : (o \in stopped) ~> LoopsDone(o)
    /\ [][\A o \in HaltObjs : LoopsDone(o) => thread'[o] = thread[o]]_vars

\* a follower and the leader were stopped and all their loops have ended
C19_Witness ==
    \A o \in HaltObjs : o \in stopped /\ ~node[o].alive /\ LoopsDone(o)

\* C20 (FloodSpec): the flood that one proposal sets off quiesces: from some
\* point on no election datagram is in flight.
C20_FloodQuiesces ==
    <>[](\A m \in net : m.type # "master_election")

\* the registry C21 expects of the node with identifier i: every other
\* configured node under its own identifier
C21_Expected(cfg, i) ==
    [k \in ConfigIds(cfg) \ {i} |-> ConfigNode(cfg, k).port]

\* C21 (ClusterSpec): a started node's peer registry holds exactly one entry
\* for every other configured node, keyed by the identifier that peer itself
\* uses (port - base_port), and none for the node itself.
C21_PeerRegistry ==
    \A o \in DOMAIN node : node[o].peers = C21_Expected(config, node[o].id)

\* C21, second half: no step adds, removes or rewrites a registry entry.
C21_RegistryFrozen ==
    [][\A o \in DOMAIN node : node'[o].peers = node[o].peers]_vars

\* C22 (Spec): in every reachable state, also after a kill or a rebuild of
\* the network, no two alive nodes share an identifier.
C22_UniqueLiveIds ==
    \A a, b \in DOMAIN node :
        (node[a].alive /\ node[b].alive /\ node[a].id = node[b].id) => a = b

\* C23 (Spec): a node with role Leader that receives a heartbeat or an
\* election proposal, whatever identifier it carries, is left as it was
\* (role, master_id, last_heartbeat and all), sends nothing and raises no
\* event.
C23_LeaderIgnores ==
    [][\A o \in DOMAIN node : \A m \in net :
          (/\ Recv(o, m) /\ node[o].is_master
           /\ m.type \in {"heartbeat", "master_election"}) =>
              /\ node'[o] = node[o]
              /\ net' = net \ {m}
              /\ events' = events]_vars

\* node 1, made Leader by the removal of node 0, has handled a heartbeat of
\* node 0, which is still sending: node 0 has sent one since the last Tick
\* (it is in its sleep), nothing is left in node 1's buffer, which only node
\* 1 can have emptied, and node 1's last_heartbeat was not reset since that
\* Tick, as it would have been had node 1 handled the datagram as a follower
C23_Witness ==
    /\ config = ConfigFor(FewNodes, "numbered", 0) /\ gen = 0
    /\ node[Obj(1, 0)].is_master /\ node[Obj(1, 0)].socket = "open"
    /\ node[Obj(1, 0)].since_heartbeat >= 1
    /\ node[Obj(0, 0)].alive /\ thread[Obj(0, 0)].pc = "sleep"
    /\ \A m \in net : m.dst # node[Obj(1, 0)].port

\* C24 (WireSpec): a received datagram that cannot be decoded or lacks the
\* field its type needs is dropped: the node is left as it was (role,
\* master_id, last_heartbeat, alive), no event is raised, nothing is sent,
\* and the listener goes on.
C24_MalformedDropped ==
    [][\A o \in DOMAIN node : \A m \in net :
          (Recv(o, m) /\ IsMalformed(m)) =>
              /\ node'[o] = node[o]
              /\ events' = events
              /\ net' = net \ {m}
              /\ thread'[o].listen = "run"]_vars

\* what C25 expects a broadcast of the payload p by n to send when sendto
\* fails for the ports of fails
C25_Expected(n, p, fails) ==
    IF n.socket = "open"
    THEN {Datagram(port, p) : port \in Range(n.peers) \ fails} ELSE {}

\* C25 (CastSpec): a broadcast in which the send to some peers fails still
\* sends the message to every other peer of the registry, raises nothing to
\* its caller, and the broadcasting loop goes on to its sleep and its next
\* turn.
C25_BroadcastSurvives ==
    [][\A o \in DOMAIN node : \A fails \in SUBSET CastPorts :
          /\ CastHeartbeat(o, fails) =>
                /\ net' = Transmit(net, C25_Expected(node[o],
                                       Payload("heartbeat", node[o].id, 0), fails))
                /\ thread'[o].pc = "sleep"
          /\ CastElection(o, fails) =>
                /\ net' = Transmit(net, C25_Expected(node[o],
                                       Payload("master_election", node[o].id, 0), fails))
                /\ thread'[o].pc = "sleep"]_vars

\* within the first second the leader has broadcast a heartbeat: the send
\* to node 1, the first peer, failed (node 1 has handled no heartbeat and
\* none waits for it), and node 2 was sent its heartbeat all the same
C25_Witness ==
    /\ config = ConfigFor(NumNodes, "numbered", 0)
    /\ node[Obj(0, 0)].since_heartbeat = 0
    /\ thread[Obj(0, 0)].pc = "sleep"
    /\ node[Obj(1, 0)].master_id = None
    /\ \A m \in net : m.dst # node[Obj(1, 0)].port
    /\ \E m \in net : m.dst = node[Obj(2, 0)].port /\ m.type = "heartbeat"

\* the unordered pairs of the nodes the monitor knows
C26_AllPairs ==
    {q \in (DOMAIN monitor.nodes) \X (DOMAIN monitor.nodes) : q[1] < q[2]}

\* the pairs whose check in the cycle at hand gave another result than the
\* one recorded in self.connections by the cycle before
C26_Differing ==
    {q \in C26_AllPairs : monitor.probed[q] # (q \in monitor.connections)}

\* C26 (ProbeSpec): when a cycle of the monitor ends, every unordered pair of
\* known nodes has been checked, connection_changed(a, b, result) has been
\* emitted in the cycle, once, exactly for the pairs whose result differs
\* from what the previous cycle recorded, and the recorded connections
\* become exactly the pairs whose check succeeded in this cycle.
C26_CycleRecorded ==
    [][CycleEnd =>
          /\ DOMAIN monitor.probed = C26_AllPairs
          /\ {monitor.changed[i] : i \in DOMAIN monitor.changed} =
                {<<q[1], q[2], monitor.probed[q]>> : q \in C26_Differing}
          /\ Len(monitor.changed) = Cardinality(C26_Differing)
          /\ monitor'.connections = {q \in C26_AllPairs : monitor.probed[q]}]_vars

\* a cycle has ended in which the process at ForeignPort, which had answered
\* both probes of the cycle before, answered only the second: one signal,
\* (0, ForeignId, False), was emitted, and one connection is recorded
C26_Witness ==
    /\ monitor.pc = "sleep"
    /\ monitor.changed = << <<0, ForeignId, FALSE>> >>
    /\ monitor.connections = {<<1, ForeignId>>}

\* a step of the connectivity monitor
MonitorAction ==
    \/ StartMonitoring(MonitoredNodes)
    \/ CycleBegin
    \/ ProbeSend
    \/ ProbeResponse
    \/ ProbeTimeout
    \/ CycleEnd

\* C27 (ProbeSpec): no step of the connectivity monitor changes a node, a
\* node's threads, the event queue or the observer's leader, and the only
\* datagrams it sends are probes; a node that receives a probe is left as
\* it was (role, master_id, last_heartbeat, alive), sends nothing (no
\* heartbeat, no proposal) and raises no event.
C27_ProbeIsInert ==
    [][/\ MonitorAction =>
             /\ node' = node /\ thread' = thread
             /\ events' = events /\ master_node' = master_node
             /\ \A d \in net' \ net : d.type = "connection_test"
       /\ \A o \in DOMAIN node : \A m \in net :
             (Recv(o, m) /\ m.type = "connection_test") =>
                 /\ node'[o] = node[o]
                 /\ net' = net \ {m}
                 /\ events' = events]_vars

\* the probe of the check at hand was queued at node 1, a follower whose
\* socket is open, and is no longer there: node 1 has handled it, and the
\* monitor still waits for the answer
C27_Witness ==
    /\ monitor.pc = "wait" /\ monitor.queued
    /\ Probe(monitor).dst = node[Obj(1, 0)].port
    /\ ~node[Obj(1, 0)].is_master /\ node[Obj(1, 0)].socket = "open"
    /\ ~ProbePending(monitor)

\* C28, first half (ProbeSpec): a live node that receives a probe sends a
\* connection_test_response.
C28_ProbeAnswered ==
    [][\A o \in DOMAIN node : \A m \in net :
          (Recv(o, m) /\ m.type = "connection_test" /\ node[o].alive) =>
              \E d \in net' \ net : d.type = "connection_test_response"]_vars

\* C28 (ProbeSpec): with fair scheduling and delivery, the pair of the two
\* live nodes of the configuration, which reach each other, is at some time
\* recorded as connected by the connectivity monitor.
C28_EventuallyConnected ==
    <>(<<0, 1>> \in monitor.connections)

====
